---- MODULE Spec2Model ----
(***************************************************************************)
(* The migration script migrate-claude.py: conversations.json is loaded,   *)
(* every conversation and message is mapped and upserted into the SQLite   *)
(* store opengrove.db through one connection, and a summary is printed.    *)
(* One process run is modelled statement by statement; the same input file *)
(* can be migrated again against the store the previous run left behind.   *)
(***************************************************************************)
EXTENDS Integers, Sequences, FiniteSets

(***************************************************************************)
(* Bounds of the model.                                                    *)
(***************************************************************************)
MaxConvs == 2
MaxMsgs == 2
MaxRuns == 2

(***************************************************************************)
(* JSON values. A field of a JSON object is absent, null, or a value.      *)
(* Text (name, text) is a sequence of characters; identifiers, senders and *)
(* timestamps are opaque strings; chat_messages is a list.                 *)
(***************************************************************************)
TAbsent == [t |-> "absent", v |-> <<>>]
TNull == [t |-> "null", v |-> <<>>]
Txt(s) == [t |-> "str", v |-> s]
AAbsent == [t |-> "absent", v |-> ""]
ANull == [t |-> "null", v |-> ""]
Atom(s) == [t |-> "str", v |-> s]
LAbsent == [t |-> "absent", v |-> <<>>]
List(s) == [t |-> "list", v |-> s]

\* Python truthiness of dict.get(key): None (absent or null) and the empty
\* string or list are false.
Truthy(x) == x.t \in {"str", "list"} /\ x.v # <<>>

(***************************************************************************)
(* str.strip() and slicing.                                                *)
(***************************************************************************)
IsSpace(c) == c \in {" ", "\t", "\n"}

RECURSIVE lstrip(_)
lstrip(s) == IF s # <<>> /\ IsSpace(Head(s)) THEN lstrip(Tail(s)) ELSE s

RECURSIVE rstrip(_)
rstrip(s) ==
    IF s # <<>> /\ IsSpace(s[Len(s)]) THEN rstrip(SubSeq(s, 1, Len(s) - 1)) ELSE s

strip(s) == rstrip(lstrip(s))

\* s[:n]
Prefix(s, n) == SubSeq(s, 1, IF Len(s) < n THEN Len(s) ELSE n)

TitleLen == 50
NewChat == <<"N", "e", "w", " ", "c", "h", "a", "t">>
DefaultModel == "gemini-2.0-flash"

\* generate_title that slices the text without stripping it first.
generate_title_unstripped(first_message) ==
    LET title == Prefix(first_message, TitleLen)
    IN  IF title # <<>> THEN title ELSE NewChat

\* generate_title(first_message)
generate_title(first_message) ==
    LET title == Prefix(strip(first_message), TitleLen)
    IN  IF title # <<>> THEN title ELSE NewChat

(***************************************************************************)
(* iso_to_unix_timestamp: 'Z' is replaced by '+00:00', the result is       *)
(* parsed by datetime.fromisoformat and truncated to whole seconds.        *)
(* Unparsed == -1 stands for the ValueError of fromisoformat.              *)
(***************************************************************************)
T0 == "2024-01-01T00:00:00Z"
T1 == "2024-01-01T01:00:01+01:00"
TBad == "yesterday"

ReplaceZ(iso_string) ==
    CASE iso_string = "2024-01-01T00:00:00Z" -> "2024-01-01T00:00:00+00:00"
      [] iso_string = "2024-01-01T00:00:01Z" -> "2024-01-01T00:00:01+00:00"
      [] OTHER -> iso_string

Unparsed == -1

fromisoformat(s) ==
    CASE s = "2024-01-01T00:00:00+00:00" -> 1704067200
      [] s = "2024-01-01T00:00:01+00:00" -> 1704067201
      [] s = "2024-01-01T01:00:01+01:00" -> 1704067201
      [] OTHER -> Unparsed

iso_to_unix_timestamp(iso_string) == fromisoformat(ReplaceZ(iso_string))

\* The exception raised by iso_to_unix_timestamp(obj['created_at']), "" if none.
TimestampError(created_at) ==
    CASE created_at.t = "absent" -> "KeyError"
      [] created_at.t = "null" -> "AttributeError"
      [] iso_to_unix_timestamp(created_at.v) = Unparsed -> "ValueError"
      [] OTHER -> ""

(***************************************************************************)
(* The mapping of migrate(): skip test, title, role, rows.                 *)
(***************************************************************************)
\* msg.get('text') and msg['text'].strip()
HasText(msg) == Truthy(msg.text) /\ strip(msg.text.v) # <<>>

\* A skip test that forgets the empty list.
IsEmptyConversation_absentOnly(conv) == conv.chat_messages.t # "list"

\* A skip test that also skips conversations none of whose messages has text.
IsEmptyConversation_noText(conv) ==
    \/ ~Truthy(conv.chat_messages)
    \/ \A k \in 1..Len(conv.chat_messages.v) : ~HasText(conv.chat_messages.v[k])

\* not conv.get('chat_messages') or len(conv['chat_messages']) == 0
IsEmptyConversation(conv) == ~Truthy(conv.chat_messages)

\* conv.get('name', '').strip() raises AttributeError when name is null.
NameError(conv) == IF conv.name.t = "null" THEN "AttributeError" ELSE ""

StrippedName(conv) == IF conv.name.t = "str" THEN strip(conv.name.v) ELSE <<>>

\* The title of a conversation whose chat_messages is not empty.
Title(conv) ==
    LET title == StrippedName(conv)
        first_msg == conv.chat_messages.v[1]
    IN  IF title # <<>> THEN title
        ELSE IF Truthy(first_msg.text) THEN generate_title(first_msg.text.v)
        ELSE NewChat

\* A role test that takes a message without sender for the user's.
Role_absentIsUser(msg) ==
    IF msg.sender \in {Atom("human"), AAbsent} THEN "user" ELSE "assistant"

\* 'user' if msg.get('sender') == 'human' else 'assistant'
Role(msg) == IF msg.sender = Atom("human") THEN "user" ELSE "assistant"

ConversationRow(conv) ==
    [id |-> conv.uuid,
     title |-> Title(conv),
     model |-> DefaultModel,
     created_at |-> iso_to_unix_timestamp(conv.created_at.v)]

\* A message row whose two identifiers are bound in the wrong order.
MessageRow_swappedIds(conv, msg) ==
    [id |-> conv.uuid,
     conversation_id |-> msg.uuid,
     role |-> Role(msg),
     content |-> msg.text.v,
     created_at |-> iso_to_unix_timestamp(msg.created_at.v)]

MessageRow(conv, msg) ==
    [id |-> msg.uuid,
     conversation_id |-> conv.uuid,
     role |-> Role(msg),
     content |-> msg.text.v,
     created_at |-> iso_to_unix_timestamp(msg.created_at.v)]

\* The exception raised while the parameters of the conversation INSERT are
\* evaluated, in evaluation order; "" if none.
ConversationError(conv) ==
    CASE NameError(conv) # "" -> NameError(conv)
      [] conv.uuid.t = "absent" -> "KeyError"
      [] OTHER -> TimestampError(conv.created_at)

\* The exception raised by the message INSERT: parameter evaluation first,
\* then the NOT NULL constraint of messages.conversation_id.
MessageError(conv, msg) ==
    CASE msg.uuid.t = "absent" -> "KeyError"
      [] TimestampError(msg.created_at) # "" -> TimestampError(msg.created_at)
      [] conv.uuid.t = "null" -> "IntegrityError"
      [] OTHER -> ""

(***************************************************************************)
(* The store. A table is the sequence of its rows in rowid order. The id   *)
(* columns are TEXT PRIMARY KEY without NOT NULL: SQLite accepts NULL      *)
(* there, and a NULL never conflicts with another row.                     *)
(***************************************************************************)
EmptyStore == [schema |-> FALSE, conversations |-> <<>>, messages |-> <<>>]

\* INSERT OR REPLACE INTO table VALUES row
InsertOrReplace(rows, row) ==
    LET keep(r) == r.id.t = "null" \/ r.id # row.id
    IN  Append(SelectSeq(rows, keep), row)

\* CREATE TABLE / INDEX IF NOT EXISTS
EnsureSchema(store) == [store EXCEPT !.schema = TRUE]

\* A connection in autocommit mode: every INSERT reaches the file at once.
DiskAfterInsert_autocommit(onDisk, seen) == seen

\* What the store file holds after an INSERT has run inside the open
\* transaction: the statement touches the connection's view only.
DiskAfterInsert(onDisk, seen) == onDisk

\* A summary that prints the skipped counter for the messages and back.
Summary_swapped(conversations, messages, skipped) ==
    [migrated_conversations |-> conversations,
     migrated_messages |-> skipped,
     skipped_empty |-> messages]

\* The three lines of the final summary.
Summary(conversations, messages, skipped) ==
    [migrated_conversations |-> conversations,
     migrated_messages |-> messages,
     skipped_empty |-> skipped]

NoSummary == Summary(-1, -1, -1)

\* print(f"Migration failed: {error}")
Failure(error) == [failed |-> error]

(***************************************************************************)
(* Input files. conversations.json is missing, unreadable, not JSON, or a  *)
(* JSON array of at most MaxConvs conversations holding at most MaxMsgs    *)
(* messages in all.                                                        *)
(***************************************************************************)
Msg(uuid, sender, text, created_at) ==
    [uuid |-> uuid, sender |-> sender, text |-> text, created_at |-> created_at]

Conv(uuid, name, created_at, chat_messages) ==
    [uuid |-> uuid, name |-> name, created_at |-> created_at,
     chat_messages |-> chat_messages]

Hi == <<" ", "h", "i", " ">>
Blank == <<" ", " ">>
MyChat == <<" ", "M", "y", " ", "C", "h", "a", "t">>
\* 2 blanks, 49 letters, a blank, 2 letters, a blank: 52 characters stripped.
LongText ==
    <<" ", " ">> \o [k \in 1..(TitleLen - 1) |-> "a"] \o <<" ", "b", "c", " ">>

Good(uuid) == Msg(Atom(uuid), Atom("human"), Txt(Hi), Atom(T0))
Fields(uuid, name, created_at) == <<uuid, name, created_at>>

\* The families of inputs: the conversation heads (uuid, name, created_at),
\* the messages, the heads of conversations without messages, and the stores
\* found at DB_PATH (none yet, or the store an earlier migration left).
OldConversation ==
    [id |-> Atom("c1"), title |-> NewChat, model |-> DefaultModel,
     created_at |-> iso_to_unix_timestamp(T0)]
OldMessage ==
    [id |-> Atom("m1"), conversation_id |-> Atom("c1"), role |-> "assistant",
     content |-> <<"o", "l", "d">>, created_at |-> iso_to_unix_timestamp(T0)]
OldStore ==
    [schema |-> TRUE, conversations |-> <<OldConversation>>,
     messages |-> <<OldMessage>>]

ValidHead == Fields(Atom("c1"), Txt(MyChat), Atom(T0))
BrokenHead == Fields(AAbsent, TNull, Atom(TBad))

\* Records whose processing raises, at every place where it can.
Faults ==
    [heads |-> {Fields(Atom("c1"), TAbsent, Atom(T0)),
                Fields(Atom("c1"), TAbsent, Atom(TBad)),
                Fields(AAbsent, TAbsent, Atom(T0)),
                Fields(ANull, TAbsent, Atom(T0))},
     messages |-> {Good("m1"),
                   Msg(Atom("m2"), Atom("human"), Txt(Hi), Atom(TBad)),
                   Msg(AAbsent, Atom("human"), Txt(Hi), Atom(T0)),
                   Msg(Atom("m2"), Atom("human"), Txt(Blank), Atom(T0))},
     skips |-> {ValidHead},
     stores |-> {EmptyStore, OldStore},
     fixed |-> {}]

\* Identifiers that collide, within the file and with the old store, or are null.
Keys ==
    [heads |-> {Fields(Atom("c1"), Txt(MyChat), Atom(T0)),
                Fields(Atom("c1"), TAbsent, Atom(T1)),
                Fields(Atom("c2"), TAbsent, Atom(T0)),
                Fields(ANull, TAbsent, Atom(T0))},
     messages |-> {Good("m1"),
                   Msg(Atom("m1"), Atom("assistant"), Txt(Hi), Atom(T1)),
                   Good("m2"),
                   Msg(ANull, Atom("human"), Txt(Hi), Atom(T0)),
                   Msg(Atom("m2"), Atom("human"), Txt(Blank), Atom(T0))},
     skips |-> {ValidHead},
     stores |-> {EmptyStore, OldStore},
     fixed |-> {}]

\* A conversation of three messages, one of them without text.
ThreeMessages ==
    Conv(Atom("c3"), TAbsent, Atom(T0),
         List(<<Good("m1"), Msg(Atom("m2"), Atom("human"), Txt(<<>>), Atom(T0)),
                Good("m3")>>))

\* Conversations without messages, and messages without text.
Counts ==
    [heads |-> {Fields(Atom("c1"), Txt(MyChat), Atom(T0)),
                Fields(Atom("c2"), TAbsent, Atom(T0))},
     messages |-> {Good("m1"), Good("m2"),
                   Msg(Atom("m1"), Atom("human"), Txt(<<>>), Atom(T0)),
                   Msg(AAbsent, AAbsent, TAbsent, AAbsent)},
     skips |-> {ValidHead, BrokenHead},
     stores |-> {EmptyStore},
     fixed |-> {ThreeMessages}]

\* Every sender and every kind of text.
Senders ==
    [heads |-> {Fields(Atom("c1"), TAbsent, Atom(T0))},
     messages |-> {Msg(Atom("m1"), Atom("human"), Txt(Hi), Atom(T0)),
                   Msg(Atom("m2"), Atom("assistant"), Txt(Hi), Atom(T0)),
                   Msg(Atom("m3"), AAbsent, Txt(Hi), Atom(T1)),
                   Msg(Atom("m4"), Atom("human"), TAbsent, Atom(T0)),
                   Msg(Atom("m4"), Atom("human"), Txt(<<>>), Atom(T0)),
                   Msg(Atom("m4"), Atom("human"), Txt(Blank), Atom(T0))},
     skips |-> {ValidHead},
     stores |-> {EmptyStore},
     fixed |-> {}]

\* Every kind of name.
NameKinds ==
    [heads |-> {Fields(Atom("c1"), n, Atom(T0)) :
                  n \in {TAbsent, TNull, Txt(<<>>), Txt(Blank), Txt(MyChat)}},
     messages |-> {Good("m1"),
                   Msg(Atom("m1"), Atom("human"), Txt(Blank), Atom(T0))},
     skips |-> {ValidHead},
     stores |-> {EmptyStore},
     fixed |-> {}]

\* Every kind of first message text.
TextKinds ==
    [heads |-> {Fields(Atom("c1"), TAbsent, Atom(T0)),
                Fields(Atom("c2"), Txt(MyChat), Atom(T0))},
     messages |-> {Msg(Atom("m1"), Atom("human"), t, Atom(T0)) :
                     t \in {TAbsent, Txt(<<>>), Txt(Blank), Txt(Hi), Txt(LongText)}},
     skips |-> {ValidHead},
     stores |-> {EmptyStore},
     fixed |-> {}]

Family(f) ==
    CASE f = "faults" -> Faults
      [] f = "keys" -> Keys
      [] f = "counts" -> Counts
      [] f = "senders" -> Senders
      [] f = "names" -> NameKinds
      [] f = "texts" -> TextKinds

\* The conversations that can be appended to an array that holds m messages.
Conversations(f, m) ==
    Family(f).fixed
    \cup {Conv(h[1], h[2], h[3], l) :
            h \in Family(f).skips, l \in {LAbsent, List(<<>>)}}
    \cup UNION {{Conv(h[1], h[2], h[3], List(ms)) :
                    h \in Family(f).heads, ms \in [1..k -> Family(f).messages]} :
                  k \in 1..(MaxMsgs - m)}

RECURSIVE MessageCount(_)
MessageCount(data) ==
    IF data = <<>> THEN 0
    ELSE (IF Truthy(Head(data).chat_messages) THEN Len(Head(data).chat_messages.v) ELSE 0)
         + MessageCount(Tail(data))

(***************************************************************************)
(* State.                                                                  *)
(***************************************************************************)
VARIABLES
    family,                  \* the family the input is drawn from
    file,                    \* conversations.json
    disk,                    \* opengrove.db as committed on disk
    pc,                      \* position of the running process
    conversations_data,      \* the loaded array
    conn,                    \* "none", "open", "closed", "abandoned"
    in_tx,                   \* an uncommitted transaction is open on conn
    view,                    \* the store as conn sees it (disk + uncommitted)
    i, j,                    \* positions of the two for loops
    migrated_conversations, migrated_messages, skipped_empty,
    err,                     \* the exception that left migrate(), "" if none
    stdout,                  \* the printed summary, NoSummary before
    exit_code,               \* -1 while running
    runs,                    \* processes started so far
    written,                 \* history: the upserts of this run
    disk0,                   \* history: disk when this run started
    prev                     \* history: outcome of the previous run

vars ==
    <<family, file, disk, pc, conversations_data, conn, in_tx, view, i, j,
      migrated_conversations, migrated_messages, skipped_empty, err, stdout,
      exit_code, runs, written, disk0, prev>>

locals == <<migrated_conversations, migrated_messages, skipped_empty>>
hist == <<family, runs, disk0, prev>>

NoPrev == [ok |-> FALSE, disk |-> EmptyStore]

\* conversations.json before the export: missing, unreadable, cut short, or
\* an empty array.
FileKinds == {"missing", "unreadable", "invalid", "json"}

InitIn(families) ==
    /\ family \in families
    /\ file \in {[kind |-> k, data |-> <<>>] : k \in FileKinds}
    /\ disk \in Family(family).stores
    /\ pc = "start"
    /\ conversations_data = <<>>
    /\ conn = "none"
    /\ in_tx = FALSE
    /\ view = disk
    /\ i = 1
    /\ j = 1
    /\ migrated_conversations = 0
    /\ migrated_messages = 0
    /\ skipped_empty = 0
    /\ err = ""
    /\ stdout = NoSummary
    /\ exit_code = -1
    /\ runs = 1
    /\ written = <<>>
    /\ disk0 = disk
    /\ prev = NoPrev

\* The export appends a conversation to conversations.json; it is complete
\* before the migration is first started.
Export ==
    /\ pc = "start"
    /\ runs = 1
    /\ file.kind = "json"
    /\ Len(file.data) < MaxConvs
    /\ \E conv \in Conversations(family, MessageCount(file.data)) :
         file' = [file EXCEPT !.data = Append(@, conv)]
    /\ UNCHANGED <<disk, pc, conversations_data, conn, in_tx, view, i, j,
                   locals, err, stdout, exit_code, written, hist>>

\* An exception leaves migrate(): nothing is closed or rolled back on the way.
Raise(e) ==
    /\ pc' = "raised"
    /\ err' = e

\* A migrate() that opens the store before it reads the input.
Load_afterConnect ==
    /\ pc = "start"
    /\ conn' = "open"
    /\ IF file.kind = "json"
       THEN /\ conversations_data' = file.data
            /\ pc' = "loaded"
            /\ err' = err
       ELSE /\ Raise(CASE file.kind = "missing" -> "FileNotFoundError"
                       [] file.kind = "unreadable" -> "PermissionError"
                       [] OTHER -> "JSONDecodeError")
            /\ UNCHANGED conversations_data
    /\ UNCHANGED <<file, disk, in_tx, view, i, j, locals, stdout,
                   exit_code, written, hist>>

\* open() and json.load(): the whole array is in memory before anything else.
Load ==
    /\ pc = "start"
    /\ IF file.kind = "json"
       THEN /\ conversations_data' = file.data
            /\ pc' = "loaded"
            /\ err' = err
       ELSE /\ Raise(CASE file.kind = "missing" -> "FileNotFoundError"
                       [] file.kind = "unreadable" -> "PermissionError"
                       [] OTHER -> "JSONDecodeError")
            /\ UNCHANGED conversations_data
    /\ UNCHANGED <<file, disk, conn, in_tx, view, i, j, locals, stdout,
                   exit_code, written, hist>>

\* sqlite3.connect(DB_PATH); conn.cursor()
Connect ==
    /\ pc = "loaded"
    /\ conn' = "open"
    /\ view' = disk
    /\ pc' = "connected"
    /\ UNCHANGED <<file, disk, conversations_data, in_tx, i, j, locals, err,
                   stdout, exit_code, written, hist>>

\* The three CREATE ... IF NOT EXISTS statements. No transaction is open: the
\* sqlite3 module begins one before INSERT/UPDATE/DELETE/REPLACE only, so each
\* of them is committed as it runs.
CreateSchema ==
    /\ pc = "connected"
    /\ view' = EnsureSchema(view)
    /\ disk' = EnsureSchema(disk)
    /\ pc' = "loop"
    /\ UNCHANGED <<file, conversations_data, conn, in_tx, i, j, locals, err,
                   stdout, exit_code, written, hist>>

\* One iteration of "for conv in conversations_data" up to its inner loop.
NextConversation ==
    /\ pc = "loop"
    /\ i <= Len(conversations_data)
    /\ LET conv == conversations_data[i]
       IN  IF IsEmptyConversation(conv)
           THEN /\ skipped_empty' = skipped_empty + 1
                /\ i' = i + 1
                /\ UNCHANGED <<pc, err, view, disk, in_tx, written, j,
                               migrated_conversations>>
           ELSE IF ConversationError(conv) # ""
           THEN /\ Raise(ConversationError(conv))
                /\ UNCHANGED <<view, disk, in_tx, written, i, j, skipped_empty,
                               migrated_conversations>>
           ELSE /\ view' = [view EXCEPT !.conversations =
                              InsertOrReplace(@, ConversationRow(conv))]
                /\ disk' = [disk EXCEPT !.conversations =
                              DiskAfterInsert(@, view'.conversations)]
                /\ in_tx' = TRUE
                /\ written' = Append(written,
                       [table |-> "conversations", conv |-> i, msg |-> 0,
                        row |-> ConversationRow(conv)])
                /\ migrated_conversations' = migrated_conversations + 1
                /\ j' = 1
                /\ pc' = "messages"
                /\ UNCHANGED <<err, i, skipped_empty>>
    /\ UNCHANGED <<file, conversations_data, conn, migrated_messages, stdout,
                   exit_code, hist>>

\* One iteration of "for msg in conv['chat_messages']"; after the last message
\* the outer loop goes on.
NextMessage ==
    /\ pc = "messages"
    /\ LET conv == conversations_data[i]
           msgs == conv.chat_messages.v
           msg == msgs[j]
           last == j = Len(msgs)
       IN  IF ~HasText(msg)
           THEN /\ j' = IF last THEN 1 ELSE j + 1
                /\ i' = IF last THEN i + 1 ELSE i
                /\ pc' = IF last THEN "loop" ELSE "messages"
                /\ UNCHANGED <<err, view, disk, written, migrated_messages>>
           ELSE IF MessageError(conv, msg) # ""
           THEN /\ Raise(MessageError(conv, msg))
                /\ UNCHANGED <<view, disk, written, i, j, migrated_messages>>
           ELSE /\ view' = [view EXCEPT !.messages =
                              InsertOrReplace(@, MessageRow(conv, msg))]
                /\ disk' = [disk EXCEPT !.messages =
                              DiskAfterInsert(@, view'.messages)]
                /\ written' = Append(written,
                       [table |-> "messages", conv |-> i, msg |-> j,
                        row |-> MessageRow(conv, msg)])
                /\ migrated_messages' = migrated_messages + 1
                /\ j' = IF last THEN 1 ELSE j + 1
                /\ i' = IF last THEN i + 1 ELSE i
                /\ pc' = IF last THEN "loop" ELSE "messages"
                /\ err' = err
    /\ UNCHANGED <<file, conversations_data, conn, in_tx,
                   migrated_conversations, skipped_empty, stdout, exit_code,
                   hist>>

\* conn.commit(), after the outer loop has ended.
Commit ==
    /\ pc = "loop"
    /\ i > Len(conversations_data)
    /\ disk' = view
    /\ in_tx' = FALSE
    /\ pc' = "committed"
    /\ UNCHANGED <<file, conversations_data, conn, view, i, j, locals, err,
                   stdout, exit_code, written, hist>>

\* conn.close()
Close ==
    /\ pc = "committed"
    /\ conn' = "closed"
    /\ pc' = "closed"
    /\ UNCHANGED <<file, disk, conversations_data, in_tx, view, i, j, locals,
                   err, stdout, exit_code, written, hist>>

\* The summary is printed, migrate() returns and the process ends with 0.
PrintSummary ==
    /\ pc = "closed"
    /\ stdout' = Summary(migrated_conversations, migrated_messages, skipped_empty)
    /\ exit_code' = 0
    /\ pc' = "done"
    /\ UNCHANGED <<file, disk, conversations_data, conn, in_tx, view, i, j,
                   locals, err, written, hist>>

\* except Exception in __main__: the failure is printed and exit(1) ends the
\* process. The connection was never closed: the process ends with it, and
\* SQLite discards the uncommitted transaction (at once or from the journal
\* when the store is opened next).
MainExcept ==
    /\ pc = "raised"
    /\ stdout' = Failure(err)
    /\ exit_code' = 1
    /\ pc' = "failed"
    /\ conn' = IF conn = "open" THEN "abandoned" ELSE conn
    /\ in_tx' = FALSE
    /\ view' = disk
    /\ UNCHANGED <<file, disk, conversations_data, i, j, locals, err,
                   written, hist>>

\* The script is started again on the same conversations.json and store.
Rerun ==
    /\ pc \in {"done", "failed"}
    /\ runs < MaxRuns
    /\ runs' = runs + 1
    /\ prev' = [ok |-> pc = "done", disk |-> disk]
    /\ disk0' = disk
    /\ pc' = "start"
    /\ conversations_data' = <<>>
    /\ conn' = "none"
    /\ in_tx' = FALSE
    /\ view' = disk
    /\ i' = 1
    /\ j' = 1
    /\ migrated_conversations' = 0
    /\ migrated_messages' = 0
    /\ skipped_empty' = 0
    /\ err' = ""
    /\ stdout' = NoSummary
    /\ exit_code' = -1
    /\ written' = <<>>
    /\ UNCHANGED <<family, file, disk>>

Next ==
    \/ Export
    \/ Load
    \/ Connect
    \/ CreateSchema
    \/ NextConversation
    \/ NextMessage
    \/ Commit
    \/ Close
    \/ PrintSummary
    \/ MainExcept
    \/ Rerun

Spec == InitIn({"faults"}) /\ [][Next]_vars
SpecKeys == InitIn({"keys"}) /\ [][Next]_vars
SpecCounts == InitIn({"counts"}) /\ [][Next]_vars
SpecSenders == InitIn({"senders"}) /\ [][Next]_vars
SpecTitles == InitIn({"names", "texts"}) /\ [][Next]_vars

(***************************************************************************)
(* Vocabulary of the properties, stated on the source records.             *)
(***************************************************************************)
Present(x) == x.t = "str"
NonBlank(s) == \E k \in 1..Len(s) : ~IsSpace(s[k])

\* s without its leading and trailing white space.
Trimmed(s) ==
    IF ~NonBlank(s) THEN <<>>
    ELSE LET solid == {k \in 1..Len(s) : ~IsSpace(s[k])}
             first == CHOOSE k \in solid : \A l \in solid : k <= l
             last == CHOOSE k \in solid : \A l \in solid : l <= k
         IN  [k \in 1..(last - first + 1) |-> s[first + k - 1]]

\* chat_messages is absent or empty.
NoMessages(conv) == conv.chat_messages.t = "absent" \/ conv.chat_messages.v = <<>>

\* The text is present and not only white space.
Eligible(msg) == Present(msg.text) /\ NonBlank(msg.text.v)

Source == file.data
SourceIds == 1..Len(Source)
MessageIds(c) == 1..Len(Source[c].chat_messages.v)
Upserts(table) == {k \in 1..Len(written) : written[k].table = table}

\* The conversations, and the messages, the run has gone through so far.
ConversationsDone ==
    {c \in 1..Len(conversations_data) : c < i \/ (c = i /\ pc = "messages")}
MessagesDone(c) ==
    IF c < i THEN MessageIds(c)
    ELSE IF c = i /\ pc = "messages" THEN 1..(j - 1) ELSE {}

Tables(store) == <<store.conversations, store.messages>>

\* The tables after the upserts log[k..] on top of tables.
RECURSIVE Replay(_, _, _)
Replay(tables, log, k) ==
    IF k > Len(log) THEN tables
    ELSE Replay(IF log[k].table = "conversations"
                THEN <<InsertOrReplace(tables[1], log[k].row), tables[2]>>
                ELSE <<tables[1], InsertOrReplace(tables[2], log[k].row)>>,
                log, k + 1)

Succeeded == pc \in {"committed", "closed", "done"}
Failed == pc \in {"raised", "failed"}

Occurrences(rows, r) == Cardinality({k \in 1..Len(rows) : rows[k] = r})
Range(rows) == {rows[k] : k \in 1..Len(rows)}
SameRows(rows1, rows2) ==
    /\ Len(rows1) = Len(rows2)
    /\ \A r \in Range(rows1) \cup Range(rows2) :
         Occurrences(rows1, r) = Occurrences(rows2, r)

(***************************************************************************)
(* C1, as stated: a run is all-or-nothing. If it fails, nothing it wrote   *)
(* is in the store; if it succeeds, every upsert is in the store after the *)
(* one commit; before that commit the store is as the run found it.        *)
(***************************************************************************)
C1_AllOrNothing ==
    /\ Failed => disk = disk0
    /\ Succeeded => Tables(disk) = Replay(Tables(disk0), written, 1)
    /\ ~Failed /\ ~Succeeded => Tables(disk) = Tables(disk0)

(***************************************************************************)
(* C1, amended: the rows of a run are all-or-nothing. Until the commit     *)
(* that follows the last record, and for good when the run fails, both     *)
(* tables hold the rows the run found; after the commit they hold every    *)
(* upsert of the run. The schema is outside the transaction: once          *)
(* the CREATE statements have run it is in the store, also when            *)
(* the run fails afterwards.                                               *)
(***************************************************************************)
C1_RowsAllOrNothing ==
    /\ ~Succeeded => Tables(disk) = Tables(disk0)
    /\ Succeeded =>
         /\ Tables(disk) = Replay(Tables(disk0), written, 1)
         /\ i > Len(conversations_data)
    /\ pc \in {"loop", "messages"} \/ Succeeded => disk.schema
    /\ Failed /\ conn # "none" => disk.schema

\* C1: a run has failed after it had upserted rows on top of an older store.
C1_Witness ==
    /\ pc = "failed"
    /\ Len(written) >= 2
    /\ disk0.conversations # <<>>
    /\ Tables(disk) = Tables(disk0)

(***************************************************************************)
(* C2, as stated: when a run has succeeded, the next run on the same file  *)
(* and store succeeds too and leaves both tables with the same rows.       *)
(***************************************************************************)
C2_Idempotent ==
    runs >= 2 /\ prev.ok =>
        /\ ~Failed
        /\ pc = "done" =>
             /\ SameRows(disk.conversations, prev.disk.conversations)
             /\ SameRows(disk.messages, prev.disk.messages)

(***************************************************************************)
(* C3: in every state of a run, every message upsert of the run carries    *)
(* the id of a conversation upserted earlier in the run, and every message *)
(* row of the run has its conversation, written by the run, in the store   *)
(* as the connection sees it and, after the commit, as it is on disk.      *)
(***************************************************************************)
C3_ReferentialIntegrity ==
    /\ \A k \in Upserts("messages") :
         /\ written[k].row.conversation_id.t = "str"
         /\ \E p \in Upserts("conversations") :
              /\ p < k
              /\ written[p].row.id = written[k].row.conversation_id
         /\ \A store \in {view} \cup (IF Succeeded THEN {disk} ELSE {}) :
              written[k].row \in Range(store.messages) =>
                \E p \in Upserts("conversations") :
                    /\ written[p].row \in Range(store.conversations)
                    /\ written[p].row.id = written[k].row.conversation_id
    /\ Succeeded =>
         \A m \in Range(disk.messages) :
            \E c \in Range(disk.conversations) : c.id = m.conversation_id

\* C3: a run has ended in which a conversation row of the store was overwritten
\* and a message was overwritten by a message of another conversation.
C3_Witness ==
    /\ pc = "done"
    /\ \E q \in Upserts("conversations") :
         \E r \in Range(disk0.conversations) :
            r.id = written[q].row.id /\ r # written[q].row
    /\ \E p, q \in Upserts("messages") :
         /\ p < q
         /\ written[p].row.id = written[q].row.id
         /\ written[p].row.conversation_id # written[q].row.conversation_id

(***************************************************************************)
(* C4: a conversation whose chat_messages is absent or empty is left out   *)
(* of the store, adds exactly 1 to the skipped counter and never aborts    *)
(* the run, whatever its other fields; nothing else adds to the counter.   *)
(***************************************************************************)
C4_SkipEmpty ==
    /\ skipped_empty =
         Cardinality({c \in ConversationsDone : NoMessages(conversations_data[c])})
    /\ \A k \in 1..Len(written) : ~NoMessages(Source[written[k].conv])
    /\ Failed /\ i <= Len(conversations_data) => ~NoMessages(conversations_data[i])

\* C4: a run has ended that skipped a conversation without messages whose
\* uuid, name and created_at are all unusable, and stored another one.
C4_Witness ==
    /\ pc = "done"
    /\ written # <<>>
    /\ \E c \in SourceIds :
         /\ NoMessages(Source[c])
         /\ Source[c].uuid.t = "absent"
         /\ Source[c].name.t = "null"
         /\ Source[c].created_at = Atom(TBad)

(***************************************************************************)
(* C5, as stated: after a successful run on a fresh store every stored     *)
(* conversation has at least one stored message.                           *)
(***************************************************************************)
C5_NoConversationWithoutMessage ==
    pc = "done" /\ runs = 1 /\ disk0 = EmptyStore =>
        \A c \in Range(disk.conversations) :
            \E m \in Range(disk.messages) : m.conversation_id = c.id

(***************************************************************************)
(* C5, amended: a conversation is skipped exactly when it has no source    *)
(* messages. A conversation with messages is stored also when none of its  *)
(* messages has text: after a successful run the conversations upserted    *)
(* are those whose chat_messages is not empty, one upsert each, and a      *)
(* stored conversation may have no stored message.                         *)
(***************************************************************************)
C5_StoredIffHasSourceMessages ==
    pc = "done" =>
        /\ \A c \in SourceIds :
             Cardinality({k \in Upserts("conversations") : written[k].conv = c})
                = IF NoMessages(Source[c]) THEN 0 ELSE 1
        /\ \A k \in Upserts("conversations") :
             \E r \in Range(disk.conversations) : r.id = written[k].row.id

\* C5: a run on a fresh store has ended and stored a conversation none of
\* whose messages has text, so that it has no row in messages.
C5_Witness ==
    /\ pc = "done"
    /\ disk0 = EmptyStore
    /\ \E k \in Upserts("conversations") :
         /\ \A m \in MessageIds(written[k].conv) :
              ~Eligible(Source[written[k].conv].chat_messages.v[m])
         /\ written[k].row \in Range(disk.conversations)
         /\ \A m \in Range(disk.messages) : m.conversation_id # written[k].row.id

(***************************************************************************)
(* C6: after a successful run the summary reports, as conversations        *)
(* migrated, the source conversations with a non-empty chat_messages; as   *)
(* messages migrated, the messages of those conversations whose text is    *)
(* present and not only white space; as conversations skipped, the source  *)
(* conversations without messages. Migrated plus skipped is the number of  *)
(* source conversations.                                                   *)
(***************************************************************************)
C6_Summary ==
    pc = "done" =>
        LET kept == {c \in SourceIds : ~NoMessages(Source[c])}
            texts == UNION {{<<c, m>> : m \in {n \in MessageIds(c) :
                              Eligible(Source[c].chat_messages.v[n])}} : c \in kept}
        IN  /\ stdout.migrated_conversations = Cardinality(kept)
            /\ stdout.migrated_messages = Cardinality(texts)
            /\ stdout.skipped_empty = Cardinality(SourceIds \ kept)
            /\ stdout.migrated_conversations + stdout.skipped_empty = Len(Source)

\* C6: the scenario of two conversations, one with two messages with text and
\* one without text, one with no messages, has been reported as 1, 2, 1.
C6_Witness ==
    /\ pc = "done"
    /\ Len(Source) = 2
    /\ Source[1] = ThreeMessages
    /\ NoMessages(Source[2])
    /\ stdout = [migrated_conversations |-> 1, migrated_messages |-> 2,
                 skipped_empty |-> 1]

(***************************************************************************)
(* C7: a message of a stored conversation is upserted exactly when its     *)
(* text is present and does not trim to empty. Its row has the message     *)
(* uuid as id, the conversation's uuid as conversation_id, the text as it  *)
(* is, untrimmed, as content, and the role 'user' when the sender is       *)
(* "human" and 'assistant' for any other sender or none. Stored roles are  *)
(* user or assistant and stored contents are not empty.                    *)
(***************************************************************************)
C7_MessageMapping ==
    /\ \A c \in ConversationsDone :
         ~NoMessages(Source[c]) =>
            \A m \in MessagesDone(c) :
               Cardinality({k \in Upserts("messages") :
                               written[k].conv = c /\ written[k].msg = m})
                  = IF Eligible(Source[c].chat_messages.v[m]) THEN 1 ELSE 0
    /\ \A k \in Upserts("messages") :
         LET conv == Source[written[k].conv]
             msg == conv.chat_messages.v[written[k].msg]
             row == written[k].row
         IN  /\ row.id = msg.uuid
             /\ row.conversation_id = conv.uuid
             /\ row.content = msg.text.v
             /\ row.role = "user" <=> msg.sender = Atom("human")
             /\ row.role = "assistant" <=> msg.sender # Atom("human")
    /\ \A r \in Range(view.messages) \cup Range(disk.messages) :
         r.role \in {"user", "assistant"} /\ r.content # <<>>

\* C7: a run has ended that stored the untrimmed text of a message without
\* sender as the assistant's, and dropped a message of white space.
C7_Witness ==
    /\ pc = "done"
    /\ \E r \in Range(disk.messages) :
         r.role = "assistant" /\ r.id = Atom("m3") /\ r.content = Hi
    /\ \E c \in SourceIds :
         \E m \in MessageIds(c) :
            /\ Source[c].chat_messages.v[m].text = Txt(Blank)
            /\ \A k \in Upserts("messages") :
                 written[k].conv # c \/ written[k].msg # m

(***************************************************************************)
(* C8: the title of every stored conversation is the trimmed name when     *)
(* that is not empty; else the first 50 characters of the trimmed text of  *)
(* the first message when that is not empty; else "New chat". It is never  *)
(* empty, and a conversation without name does not abort the run.          *)
(***************************************************************************)
ExpectedTitle(conv) ==
    LET name == IF Present(conv.name) THEN Trimmed(conv.name.v) ELSE <<>>
        first == conv.chat_messages.v[1]
        text == IF Present(first.text) THEN Trimmed(first.text.v) ELSE <<>>
    IN  IF name # <<>> THEN name
        ELSE IF text # <<>>
             THEN [k \in 1..(IF Len(text) < 50 THEN Len(text) ELSE 50) |-> text[k]]
             ELSE <<"N", "e", "w", " ", "c", "h", "a", "t">>

C8_Title ==
    /\ \A k \in Upserts("conversations") :
         /\ written[k].row.title = ExpectedTitle(Source[written[k].conv])
         /\ written[k].row.title # <<>>
    /\ \A r \in Range(view.conversations) \cup Range(disk.conversations) :
         r.title # <<>>
    /\ \A c \in ConversationsDone :
         ~NoMessages(Source[c]) /\ Source[c].name.t = "absent" =>
            \E k \in Upserts("conversations") : written[k].conv = c
    /\ Failed /\ i <= Len(conversations_data) =>
         conversations_data[i].name.t # "absent"

\* C8: a run has ended that stored a title cut to 50 characters from a longer
\* first message, for a conversation without name.
C8_Witness ==
    /\ pc = "done"
    /\ \E k \in Upserts("conversations") :
         LET conv == Source[written[k].conv]
         IN  /\ conv.name.t = "absent"
             /\ conv.chat_messages.v[1].text = Txt(LongText)
             /\ Len(written[k].row.title) = 50
             /\ Len(Trimmed(LongText)) > 50
             /\ written[k].row \in Range(disk.conversations)

(***************************************************************************)
(* C9, as stated: the connection a run has opened is released on every     *)
(* way out of the run, the failing ones included: when migrate() has       *)
(* ended, by return or by exception, no transaction is open and the        *)
(* connection is closed. It is closed only after all records.              *)
(***************************************************************************)
C9_Released ==
    /\ pc \in {"raised", "failed", "done"} /\ conn # "none" =>
         conn = "closed" /\ ~in_tx
    /\ conn = "closed" => i > Len(conversations_data) /\ ~in_tx

(***************************************************************************)
(* C10: a load error is fatal and comes before any write. When the file is *)
(* missing, unreadable or not JSON, the store is neither opened nor        *)
(* changed, nothing is upserted, and the process prints the failure and    *)
(* ends with status 1; whenever the store has been opened or changed, the  *)
(* whole input had been loaded.                                            *)
(***************************************************************************)
C10_LoadErrorBeforeWrite ==
    /\ file.kind # "json" =>
         /\ pc \in {"start", "raised", "failed"}
         /\ conn = "none"
         /\ disk = disk0
         /\ view = disk0
         /\ written = <<>>
         /\ pc # "start" =>
              err \in {"FileNotFoundError", "PermissionError", "JSONDecodeError"}
         /\ pc = "failed" => exit_code = 1 /\ stdout = Failure(err)
    /\ conn # "none" \/ disk # disk0 \/ written # <<>> =>
         file.kind = "json" /\ conversations_data = file.data

\* C10: the process has ended with status 1 on a file that is not JSON.
C10_Witness ==
    /\ pc = "failed"
    /\ file.kind = "invalid"
    /\ err = "JSONDecodeError"
    /\ exit_code = 1
    /\ conn = "none"
====
